---- MODULE Spec2Model ----
(***************************************************************************)
(* Al-Meezan lead-capture application (src/app.py): the public /contact    *)
(* endpoint with its in-memory rate limiter, the session-gated admin       *)
(* routes over the leads table, and the key-gated background e-mail backup. *)
(*                                                                         *)
(* Time is counted in whole seconds and does not go back: `now` stands     *)
(* both for time.time() and for SQLite's CURRENT_TIMESTAMP.  Request       *)
(* handlers run one at a time: a handler is one step that leaves its       *)
(* response in resp, and Respond delivers it before the next step.  The    *)
(* backup thread started by /admin/backup runs concurrently with the       *)
(* handlers, also between Thread.start() and the return of admin_backup.   *)
(* Errors of SQLite in the request handlers and request bodies that are    *)
(* not JSON objects are not modelled.                                      *)
(*                                                                         *)
(* Spec runs the whole application from one browser over a short time,     *)
(* SpecAdmin the session-gated routes from two browsers, SpecRate the      *)
(* /contact endpoint with every request body over more than one cooldown.  *)
(* SpecRace and SpecDash serve requests on threads: in SpecRace two        *)
(* /contact requests run statement by statement, in SpecDash the queries   *)
(* of /admin run one by one with other requests in between.                *)
(***************************************************************************)
EXTENDS Integers, Sequences, FiniteSets, TLC

VARIABLES
    leads,        \* the leads table: id -> row
    autoinc,      \* sqlite_sequence of AUTOINCREMENT: the largest id ever given
    REQUEST_LOG,  \* client address -> time of the last request that passed the throttle
    session,      \* browser -> whether its session cookie holds admin_logged_in
    now,          \* the clock, in seconds
    threads,      \* the backup threads started so far
    hpc,          \* 0: no handler is running; t: admin_backup has started thread t and not yet returned
    resp,         \* the response of the handler that just ran, on its way to the client
    accepted,     \* history: client address -> time of its last persisted submission
    everStored,   \* history: the ids of the leads that are or ever were in the store
    handlers,     \* the /contact requests in progress when requests are served by threads
    dashboard     \* the /admin request in progress when requests are served by threads

vars == <<leads, autoinc, REQUEST_LOG, session, now, threads, hpc, resp, accepted,
          everStored, handlers, dashboard>>

----------------------------------------------------------------------------
(* Bounds of the model *)

MaxId == 2         \* submissions persisted in one run
MaxTime == 1       \* the clock stops here
MaxBackups == 1    \* backup threads started in one run
MaxClock == 6      \* where the clock stops when the rate limiter is run on its own

(* Program constants *)

COOLDOWN == 5
MAX_NAME == 100
MAX_PHONE == 20
MAX_MESSAGE == 1000
ACCEPTED == 202

IPs == {"10.0.0.1", "10.0.0.2"}
Browsers == {"b1", "b2"}

\* the browser that sends the requests when the whole application runs
OneBrowser == {"b1"}

ADMIN_USERNAME == "admin"
ADMIN_PASSWORD == "secret"
BACKUP_KEY == "backup-key"

----------------------------------------------------------------------------
(* Text.  A string is kept run-length encoded: a sequence of runs <<c, n>>,  *)
(* n >= 1 copies of the character c, no two neighbouring runs of the same   *)
(* character.  <<>> is the empty string.                                   *)

WS == {" ", "\t", "\n"}

Rep(n, c) == IF n = 0 THEN <<>> ELSE << <<c, n>> >>

\* string concatenation
Cat(s, t) ==
    IF s = <<>> THEN t
    ELSE IF t = <<>> THEN s
    ELSE IF s[Len(s)][1] = t[1][1]
         THEN SubSeq(s, 1, Len(s) - 1) \o << <<t[1][1], s[Len(s)][2] + t[1][2]>> >> \o Tail(t)
         ELSE s \o t

\* the string of the characters of chars, in order
RECURSIVE Lit(_)
Lit(chars) == IF chars = <<>> THEN <<>> ELSE Cat(Rep(1, Head(chars)), Lit(Tail(chars)))

\* len(s)
RECURSIVE StrLen(_)
StrLen(s) == IF s = <<>> THEN 0 ELSE s[1][2] + StrLen(Tail(s))

\* the characters of s, one by one
RECURSIVE Chars(_)
Chars(s) == IF s = <<>> THEN <<>> ELSE [i \in 1..s[1][2] |-> s[1][1]] \o Chars(Tail(s))

SetMax(S) == CHOOSE x \in S : \A y \in S : x >= y

\* str.strip(): drop leading and trailing whitespace
RECURSIVE LSkip(_, _)
LSkip(s, i) == IF i > Len(s) \/ s[i][1] \notin WS THEN i ELSE LSkip(s, i + 1)

RECURSIVE RSkip(_, _)
RSkip(s, j) == IF j < 1 \/ s[j][1] \notin WS THEN j ELSE RSkip(s, j - 1)

\* (faulty variant: lstrip() instead of strip())
StripLeftOnly(s) == SubSeq(s, LSkip(s, 1), Len(s))
Strip(s) ==
    LET i == LSkip(s, 1)
        j == RSkip(s, Len(s))
    IN  IF i > j THEN <<>> ELSE SubSeq(s, i, j)

----------------------------------------------------------------------------
(* JSON bodies of POST /contact.  A field is absent, a string, or a value   *)
(* that is not a string (null, a number), on which .strip() raises.        *)

Absent == [kind |-> "absent", val |-> <<>>]
NonStr == [kind |-> "nonstr", val |-> <<>>]
Str(s) == [kind |-> "str", val |-> s]

ShortName == Lit(<<"A", "l", "i">>)
ShortPhone == Lit(<<"5", "5", "5">>)
ShortMessage == Lit(<<"h", "i", ",", " ", "\"", "x", "\"">>)

Body(n, p, m) == [name |-> n, phone |-> p, message |-> m]

ValidBodies ==
    { Body(Str(ShortName), Str(ShortPhone), Str(ShortMessage)),
      Body(Str(Cat(Lit(<<" ">>), Cat(ShortName, Lit(<<"\n">>)))),
           Str(Cat(Lit(<<"\t">>), ShortPhone)),
           Str(Cat(ShortMessage, Lit(<<" ", " ">>)))),
      Body(Str(Rep(MAX_NAME, "n")), Str(Rep(MAX_PHONE, "7")), Str(Rep(MAX_MESSAGE, "m"))),
      Body(Str(Cat(Lit(<<" ">>), Cat(Rep(MAX_NAME, "n"), Lit(<<" ">>)))),
           Str(Cat(Rep(MAX_PHONE, "7"), Lit(<<" ">>))),
           Str(Cat(Lit(<<"\n">>), Rep(MAX_MESSAGE, "m")))) }

InvalidBodies ==
    { Body(Absent, Str(ShortPhone), Str(ShortMessage)),
      Body(Str(ShortName), Absent, Str(ShortMessage)),
      Body(Str(ShortName), Str(ShortPhone), Absent),
      Body(Str(<<>>), Str(ShortPhone), Str(ShortMessage)),
      Body(Str(ShortName), Str(Lit(<<" ", "\t">>)), Str(ShortMessage)),
      Body(Str(ShortName), Str(ShortPhone), Str(Lit(<<"\n">>))),
      Body(Str(Rep(MAX_NAME + 1, "n")), Str(ShortPhone), Str(ShortMessage)),
      Body(Str(ShortName), Str(Rep(MAX_PHONE + 1, "7")), Str(ShortMessage)),
      Body(Str(ShortName), Str(ShortPhone), Str(Rep(MAX_MESSAGE + 1, "m"))) }

NonStrBodies ==
    { Body(NonStr, Str(ShortPhone), Str(ShortMessage)),
      Body(Str(<<>>), Str(ShortPhone), NonStr) }

Bodies == ValidBodies \cup InvalidBodies \cup NonStrBodies

\* the bodies sent while the whole application runs: accepted, refused and raising ones
FewBodies ==
    { Body(Str(Cat(Lit(<<" ">>), Cat(ShortName, Lit(<<"\n">>)))), Str(ShortPhone), Str(ShortMessage)),
      Body(Str(ShortName), Absent, Str(ShortMessage)),
      Body(NonStr, Str(ShortPhone), Str(ShortMessage)) }

\* data.get(field, "")
Get(f) == IF f.kind = "absent" THEN Str(<<>>) ELSE f

\* data.get(...).strip() raises AttributeError on a value that is not a string
Raises(data) ==
    \/ Get(data.name).kind = "nonstr"
    \/ Get(data.phone).kind = "nonstr"
    \/ Get(data.message).kind = "nonstr"

Field(f) == Strip(Get(f).val)

\* the validation of contact(): TRUE when the trimmed fields are refused
\* (faulty variants: no length checks; >= instead of >)
RefusedNoLength(name, phone, message) ==
    name = <<>> \/ phone = <<>> \/ message = <<>>
RefusedOffByOne(name, phone, message) ==
    \/ name = <<>> \/ phone = <<>> \/ message = <<>>
    \/ StrLen(name) >= MAX_NAME
    \/ StrLen(phone) >= MAX_PHONE
    \/ StrLen(message) >= MAX_MESSAGE
Refused(name, phone, message) ==
    \/ name = <<>> \/ phone = <<>> \/ message = <<>>
    \/ StrLen(name) > MAX_NAME
    \/ StrLen(phone) > MAX_PHONE
    \/ StrLen(message) > MAX_MESSAGE

----------------------------------------------------------------------------
(* Rate limiter *)

\* if ip in REQUEST_LOG: if now - REQUEST_LOG[ip] < 5: reject
\* (faulty variants: <= instead of <; no check at all; one timestamp for all addresses)
ThrottledShared(log, ip, t) == \E a \in DOMAIN log : t - log[a] < COOLDOWN
ThrottledInclusive(log, ip, t) == ip \in DOMAIN log /\ t - log[ip] <= COOLDOWN
ThrottledNever(log, ip, t) == FALSE
Throttled(log, ip, t) == ip \in DOMAIN log /\ t - log[ip] < COOLDOWN

\* REQUEST_LOG[ip] = now
\* (faulty variant: an entry is written once and never updated)
StampKeepFirst(log, ip, t) ==
    [a \in DOMAIN log \cup {ip} |-> IF a \in DOMAIN log THEN log[a] ELSE t]
Stamp(log, ip, t) == [a \in DOMAIN log \cup {ip} |-> IF a = ip THEN t ELSE log[a]]

----------------------------------------------------------------------------
(* Lead store *)

\* INSERT INTO leads (name, phone, message): AUTOINCREMENT id, status DEFAULT 'new',
\* created_at DEFAULT CURRENT_TIMESTAMP
NewRow(name, phone, message, t) ==
    [name |-> name, phone |-> phone, message |-> message,
     status |-> "new", created_at |-> t]

\* (faulty variant: INTEGER PRIMARY KEY without AUTOINCREMENT, which reuses the id of a
\* deleted last row)
InsertLeadReuseId(l, lastId, name, phone, message, t) ==
    LET id == IF DOMAIN l = {} THEN 1 ELSE SetMax(DOMAIN l) + 1
    IN  [i \in DOMAIN l \cup {id} |->
            IF i = id THEN NewRow(name, phone, message, t) ELSE l[i]]
InsertLead(l, lastId, name, phone, message, t) ==
    LET id == lastId + 1
    IN  [i \in DOMAIN l \cup {id} |->
            IF i = id THEN NewRow(name, phone, message, t) ELSE l[i]]

\* UPDATE leads SET status='contacted' WHERE id=?
\* (faulty variants: the status is toggled; the WHERE clause is missing)
MarkRowsToggle(l, id) ==
    [i \in DOMAIN l |->
        IF i = id
        THEN [l[i] EXCEPT !.status = IF @ = "new" THEN "contacted" ELSE "new"]
        ELSE l[i]]
MarkRowsAll(l, id) == [i \in DOMAIN l |-> [l[i] EXCEPT !.status = "contacted"]]
MarkRows(l, id) ==
    [i \in DOMAIN l |-> IF i = id THEN [l[i] EXCEPT !.status = "contacted"] ELSE l[i]]

\* DELETE FROM leads WHERE id=?
\* (faulty variant: the WHERE clause is missing)
DeleteRowsAll(l, id) == <<>>
DeleteRows(l, id) == [i \in DOMAIN l \ {id} |-> l[i]]

\* a fetched row: the columns of SELECT *
Row(l, id) ==
    [id |-> id, name |-> l[id].name, phone |-> l[id].phone, message |-> l[id].message,
     status |-> l[id].status, created_at |-> l[id].created_at]

\* ORDER BY created_at DESC: the newest first; SQL leaves the order of rows with
\* equal created_at open, so every order of them is a possible result
Ordered(l, ids) ==
    LET n == Cardinality(ids)
    IN  { [k \in 1..n |-> Row(l, p[k])] :
            p \in { q \in [1..n -> ids] :
                      /\ \A a, b \in 1..n : a /= b => q[a] /= q[b]
                      /\ \A a, b \in 1..n : a < b => l[q[a]].created_at >= l[q[b]].created_at } }

SelectAll(l) == Ordered(l, DOMAIN l)

\* LIKE '%search%': a substring match that ignores the case of ASCII letters
Lower(c) ==
    CASE c = "A" -> "a" [] c = "L" -> "l" [] c = "I" -> "i" [] c = "N" -> "n"
      [] c = "M" -> "m" [] c = "H" -> "h" [] c = "X" -> "x" [] OTHER -> c

Like(text, search) ==
    LET t == Chars(text)
        p == Chars(search)
    IN  \E i \in 1..(Len(t) - Len(p) + 1) :
            \A k \in 1..Len(p) : Lower(t[i + k - 1]) = Lower(p[k])

\* WHERE name LIKE ? OR phone LIKE ? OR message LIKE ?
Matching(l, search) ==
    { id \in DOMAIN l :
        Like(l[id].name, search) \/ Like(l[id].phone, search) \/ Like(l[id].message, search) }

\* SELECT COUNT(*) FROM leads [WHERE status=?]
\* (faulty variant: the WHERE clause is missing)
CountAny(l, st) == Cardinality(DOMAIN l)
Count(l, st) == Cardinality({id \in DOMAIN l : l[id].status = st})

----------------------------------------------------------------------------
(* CSV export: csv.writer with the default dialect (comma, minimal quoting, *)
(* doubled quotes, \r\n after each row)                                    *)

Digit(d) ==
    CASE d = 0 -> "0" [] d = 1 -> "1" [] d = 2 -> "2" [] d = 3 -> "3" [] d = 4 -> "4"
      [] d = 5 -> "5" [] d = 6 -> "6" [] d = 7 -> "7" [] d = 8 -> "8" [] OTHER -> "9"

\* str(n) of a non-negative integer
RECURSIVE IntText(_)
IntText(n) ==
    IF n < 10 THEN Rep(1, Digit(n)) ELSE Cat(IntText(n \div 10), Rep(1, Digit(n % 10)))

StatusText(st) ==
    IF st = "new" THEN Lit(<<"n", "e", "w">>)
    ELSE Lit(<<"c", "o", "n", "t", "a", "c", "t", "e", "d">>)

CsvSpecial == {",", "\"", "\r", "\n"}

\* (faulty variant: fields joined without quoting)
CsvFieldUnquoted(s) == s
CsvField(s) ==
    IF \E i \in 1..Len(s) : s[i][1] \in CsvSpecial
    THEN Cat(Rep(1, "\""),
             Cat([i \in 1..Len(s) |-> IF s[i][1] = "\"" THEN <<"\"", 2 * s[i][2]>> ELSE s[i]],
                 Rep(1, "\"")))
    ELSE s

\* writer.writerow(fields)
RECURSIVE CsvJoin(_)
CsvJoin(fields) ==
    IF Len(fields) = 1 THEN CsvField(fields[1])
    ELSE Cat(CsvField(fields[1]), Cat(Rep(1, ","), CsvJoin(Tail(fields))))

CsvLine(fields) == Cat(CsvJoin(fields), Lit(<<"\r", "\n">>))

CsvHeader ==
    << Lit(<<"I", "D">>), Lit(<<"N", "a", "m", "e">>), Lit(<<"P", "h", "o", "n", "e">>),
       Lit(<<"M", "e", "s", "s", "a", "g", "e">>), Lit(<<"S", "t", "a", "t", "u", "s">>),
       Lit(<<"C", "r", "e", "a", "t", "e", "d", " ", "A", "t">>) >>

RowFields(r) ==
    << IntText(r.id), r.name, r.phone, r.message, StatusText(r.status), IntText(r.created_at) >>

RECURSIVE CsvRows(_)
CsvRows(rows) ==
    IF rows = <<>> THEN <<>> ELSE Cat(CsvLine(RowFields(Head(rows))), CsvRows(Tail(rows)))

Csv(rows) == Cat(CsvLine(CsvHeader), CsvRows(rows))

----------------------------------------------------------------------------
(* Backup thread: send_db_backup_email *)

\* a thread just started by threading.Thread(...).start()
NewThread ==
    [pc |-> "read", rows |-> <<>>, csv |-> <<>>, sends |-> 0, outcome |-> "", ended |-> ""]

\* except Exception as e: print("Backup Error:", str(e)); the thread then returns
\* (faulty variant: no try/except, the exception ends the thread)
OnExceptionUncaught(th) ==
    [th EXCEPT !.pc = "done", !.rows = <<>>, !.csv = <<>>, !.outcome = "exception", !.ended = "died"]
OnException(th) ==
    [th EXCEPT !.pc = "done", !.rows = <<>>, !.csv = <<>>, !.outcome = "exception", !.ended = "returned"]

\* if not rows: print("No leads found. Backup skipped."); return -- else build the CSV
\* (faulty variant: no test for an empty result)
AfterReadNoSkip(th, rows) == [th EXCEPT !.pc = "send", !.rows = rows, !.csv = Csv(rows)]
AfterRead(th, rows) ==
    IF rows = <<>>
    THEN [th EXCEPT !.pc = "done", !.outcome = "skipped", !.ended = "returned"]
    ELSE [th EXCEPT !.pc = "send", !.rows = rows, !.csv = Csv(rows)]

\* response = requests.post(...); if response.status_code != 202: print the error
\* (the thread's locals are gone once it has ended)
\* (faulty variant: the request is sent again until it is accepted)
AfterPostRetry(th, status) ==
    IF status = ACCEPTED
    THEN [th EXCEPT !.pc = "done", !.rows = <<>>, !.csv = <<>>, !.sends = @ + 1,
                    !.outcome = "sent", !.ended = "returned"]
    ELSE [th EXCEPT !.sends = @ + 1, !.outcome = "provider_error"]
AfterPost(th, status) ==
    [th EXCEPT !.pc = "done", !.rows = <<>>, !.csv = <<>>, !.sends = @ + 1,
               !.outcome = IF status = ACCEPTED THEN "sent" ELSE "provider_error",
               !.ended = "returned"]

StatusCodes == {ACCEPTED, 401, 500}

\* request.args.get("key"): no key, or the key given
Keys == { <<>>, <<"guess">>, <<BACKUP_KEY>> }

\* (faulty variant: any key passes)
KeyOkAny(key) == key /= <<>>
KeyOk(key) == key = <<BACKUP_KEY>>

----------------------------------------------------------------------------
(* Admin credentials *)

\* generate_password_hash / check_password_hash: the hash matches the password it was made of
PasswordHash(pw) == <<"hash", pw>>
ADMIN_PASSWORD_HASH == PasswordHash(ADMIN_PASSWORD)
CheckPasswordHash(h, pw) == h = PasswordHash(pw)

\* (faulty variant: the password is not checked)
CredentialsOkUserOnly(username, password) == username = ADMIN_USERNAME
CredentialsOk(username, password) ==
    username = ADMIN_USERNAME /\ CheckPasswordHash(ADMIN_PASSWORD_HASH, password)

\* request.form.get(..., ""): "" when the field is missing
Usernames == {"", ADMIN_USERNAME}
Passwords == {"", ADMIN_PASSWORD}

\* session.get("admin_logged_in")
\* (faulty variants: no check; one flag for all sessions)
LoggedInAnyone(b) == TRUE
LoggedInSomeone(b) == \E other \in DOMAIN session : session[other]
LoggedIn(b) == session[b]

----------------------------------------------------------------------------
(* Responses: the handler (op, with the lead id of the URL in arg), the     *)
(* status code, the body or the redirect target, and what the rendered     *)
(* page or the attachment holds                                            *)

NoResp ==
    [op |-> "none", arg |-> 0, code |-> 0, body |-> "",
     rows |-> <<>>, counts |-> <<>>, text |-> <<>>]

Reply(op, code, body) ==
    [op |-> op, arg |-> 0, code |-> code, body |-> body,
     rows |-> <<>>, counts |-> <<>>, text |-> <<>>]

Redirect(op, location) == Reply(op, 302, location)

----------------------------------------------------------------------------
(* Requests served by threads (app.run() serves each request on its own     *)
(* thread): a /contact request in progress holds its locals ip and now,    *)
(* whether it passed the throttle, and its status code once it is done; an *)
(* /admin request in progress holds the results of the queries it has made *)

\* the threads that handle /contact requests
Slots == {1, 2}

IdleHandler == [pc |-> "idle", ip |-> "", now |-> 0, passed |-> FALSE, code |-> 0]

\* store and undisturbed are history: the store at the list query, and whether every
\* later query of the request found the store as it was then
NoDashboard ==
    [pc |-> "none", code |-> 0, filtered |-> FALSE, rows |-> <<>>,
     total |-> 0, new_count |-> 0, contacted_count |-> 0,
     store |-> <<>>, undisturbed |-> TRUE]

----------------------------------------------------------------------------
Init ==
    /\ leads = <<>>
    /\ autoinc = 0
    /\ REQUEST_LOG = <<>>
    /\ session = [b \in Browsers |-> FALSE]
    /\ now = 0
    /\ threads = <<>>
    /\ hpc = 0
    /\ resp = NoResp
    /\ accepted = <<>>
    /\ everStored = {}
    /\ handlers = [h \in Slots |-> IdleHandler]
    /\ dashboard = NoDashboard

\* no response is on its way and no handler is running: the next request can be handled
Idle == resp.op = "none" /\ hpc = 0

\* the response of the handler that just ran reaches the client
Respond ==
    /\ resp.op /= "none"
    /\ resp' = NoResp
    /\ UNCHANGED <<leads, autoinc, REQUEST_LOG, session, now, threads, hpc, accepted,
                   everStored, handlers, dashboard>>

\* POST /contact
Contact(ip, data) ==
    /\ Idle
    /\ IF Throttled(REQUEST_LOG, ip, now)
       THEN /\ resp' = Reply("contact", 429, "too_many_requests")
            /\ UNCHANGED <<leads, autoinc, REQUEST_LOG, accepted, everStored>>
       ELSE /\ REQUEST_LOG' = Stamp(REQUEST_LOG, ip, now)
            /\ IF Raises(data)
               THEN /\ resp' = Reply("contact", 500, "Internal Server Error")
                    /\ UNCHANGED <<leads, autoinc, accepted, everStored>>
               ELSE LET name == Field(data.name)
                        phone == Field(data.phone)
                        message == Field(data.message)
                    IN  IF Refused(name, phone, message)
                        THEN /\ resp' = Reply("contact", 400, "error")
                             /\ UNCHANGED <<leads, autoinc, accepted, everStored>>
                        ELSE /\ autoinc < MaxId
                             /\ leads' = InsertLead(leads, autoinc, name, phone, message, now)
                             /\ autoinc' = autoinc + 1
                             /\ accepted' = Stamp(accepted, ip, now)
                             /\ everStored' = everStored \cup DOMAIN leads'
                             /\ resp' = Reply("contact", 200, "success")
    /\ UNCHANGED <<session, now, threads, hpc, handlers, dashboard>>

\* GET /admin/login
AdminLoginForm(b) ==
    /\ Idle
    /\ resp' = Reply("login_form", 200, "login.html")
    /\ UNCHANGED <<leads, autoinc, REQUEST_LOG, session, now, threads, hpc, accepted,
                   everStored, handlers, dashboard>>

\* POST /admin/login
AdminLogin(b, username, password) ==
    /\ Idle
    /\ IF CredentialsOk(username, password)
       THEN /\ session' = [session EXCEPT ![b] = TRUE]
            /\ resp' = Redirect("login", "/admin")
       ELSE /\ resp' = Reply("login", 200, "login.html: Invalid credentials")
            /\ UNCHANGED session
    /\ UNCHANGED <<leads, autoinc, REQUEST_LOG, now, threads, hpc, accepted, everStored,
                   handlers, dashboard>>

\* GET /admin?search=...
Admin(b, search) ==
    /\ Idle
    /\ IF ~LoggedIn(b)
       THEN resp' = Redirect("admin", "/admin/login")
       ELSE LET term == Strip(search)
                ids == IF term /= <<>> THEN Matching(leads, term) ELSE DOMAIN leads
            IN  \E listed \in Ordered(leads, ids) :
                    resp' = [Reply("admin", 200, "admin.html") EXCEPT
                                !.rows = listed,
                                !.counts = << Cardinality(DOMAIN leads),
                                              Count(leads, "new"),
                                              Count(leads, "contacted") >>]
    /\ UNCHANGED <<leads, autoinc, REQUEST_LOG, session, now, threads, hpc, accepted,
                   everStored, handlers, dashboard>>

\* GET /admin/mark/<lead_id>
MarkContacted(b, id) ==
    /\ Idle
    /\ IF ~LoggedIn(b)
       THEN /\ resp' = [Redirect("mark", "/admin/login") EXCEPT !.arg = id]
            /\ UNCHANGED leads
       ELSE /\ leads' = MarkRows(leads, id)
            /\ resp' = [Redirect("mark", "/admin") EXCEPT !.arg = id]
    /\ UNCHANGED <<autoinc, REQUEST_LOG, session, now, threads, hpc, accepted, everStored,
                   handlers, dashboard>>

\* GET /admin/delete/<lead_id>
DeleteLead(b, id) ==
    /\ Idle
    /\ IF ~LoggedIn(b)
       THEN /\ resp' = [Redirect("delete", "/admin/login") EXCEPT !.arg = id]
            /\ UNCHANGED leads
       ELSE /\ leads' = DeleteRows(leads, id)
            /\ resp' = [Redirect("delete", "/admin") EXCEPT !.arg = id]
    /\ UNCHANGED <<autoinc, REQUEST_LOG, session, now, threads, hpc, accepted, everStored,
                   handlers, dashboard>>

\* GET /admin/logout
\* (faulty variant: session.clear() is only called for a session that is not logged in)
AdminLogoutKeeps(b) ==
    /\ Idle
    /\ session' = session
    /\ resp' = Redirect("logout", "/admin/login")
    /\ UNCHANGED <<leads, autoinc, REQUEST_LOG, now, threads, hpc, accepted, everStored,
                   handlers, dashboard>>
AdminLogout(b) ==
    /\ Idle
    /\ session' = [session EXCEPT ![b] = FALSE]
    /\ resp' = Redirect("logout", "/admin/login")
    /\ UNCHANGED <<leads, autoinc, REQUEST_LOG, now, threads, hpc, accepted, everStored,
                   handlers, dashboard>>

\* GET /admin/download
DownloadLeads(b) ==
    /\ Idle
    /\ IF ~LoggedIn(b)
       THEN resp' = Redirect("download", "/admin/login")
       ELSE \E rows \in SelectAll(leads) :
               IF rows = <<>>
               THEN resp' = Reply("download", 200, "No data available")
               ELSE resp' = [Reply("download", 200, "text/csv") EXCEPT
                                !.rows = rows, !.text = Csv(rows)]
    /\ UNCHANGED <<leads, autoinc, REQUEST_LOG, session, now, threads, hpc, accepted,
                   everStored, handlers, dashboard>>

\* GET /admin/backup?key=...: the key check and Thread(...).start()
AdminBackup(b, key) ==
    /\ Idle
    /\ IF ~KeyOk(key)
       THEN /\ resp' = Reply("backup", 403, "Unauthorized")
            /\ UNCHANGED <<threads, hpc>>
       ELSE /\ Len(threads) < MaxBackups
            /\ threads' = Append(threads, NewThread)
            /\ hpc' = Len(threads) + 1
            /\ UNCHANGED resp
    /\ UNCHANGED <<leads, autoinc, REQUEST_LOG, session, now, accepted, everStored,
                   handlers, dashboard>>

\* the response of admin_backup after the thread was started
\* (faulty variant: the handler reports what became of the thread)
BackupResponseWaits(th) ==
    IF th.outcome \in {"provider_error", "exception"}
    THEN Reply("backup", 500, "Backup failed")
    ELSE Reply("backup", 200, "Backup triggered")
BackupResponse(th) == Reply("backup", 200, "Backup triggered")

\* GET /admin/backup: return "Backup triggered"
AdminBackupReturn ==
    /\ hpc /= 0
    /\ resp.op = "none"
    /\ resp' = BackupResponse(threads[hpc])
    /\ hpc' = 0
    /\ UNCHANGED <<leads, autoinc, REQUEST_LOG, session, now, threads, accepted,
                   everStored, handlers, dashboard>>

\* send_db_backup_email: read the leads, then skip or build the CSV
BackupRead(t) ==
    /\ resp.op = "none"
    /\ threads[t].pc = "read"
    /\ \E rows \in SelectAll(leads) :
          threads' = [threads EXCEPT ![t] = AfterRead(@, rows)]
    /\ UNCHANGED <<leads, autoinc, REQUEST_LOG, session, now, hpc, resp, accepted,
                   everStored, handlers, dashboard>>

\* send_db_backup_email: reading the store raises
BackupReadFails(t) ==
    /\ resp.op = "none"
    /\ threads[t].pc = "read"
    /\ threads' = [threads EXCEPT ![t] = OnException(@)]
    /\ UNCHANGED <<leads, autoinc, REQUEST_LOG, session, now, hpc, resp, accepted,
                   everStored, handlers, dashboard>>

\* send_db_backup_email: requests.post answers with a status code
BackupPost(t, status) ==
    /\ resp.op = "none"
    /\ threads[t].pc = "send"
    /\ threads' = [threads EXCEPT ![t] = AfterPost(@, status)]
    /\ UNCHANGED <<leads, autoinc, REQUEST_LOG, session, now, hpc, resp, accepted,
                   everStored, handlers, dashboard>>

\* send_db_backup_email: requests.post raises (connection error, timeout)
BackupPostFails(t) ==
    /\ resp.op = "none"
    /\ threads[t].pc = "send"
    /\ threads' = [threads EXCEPT ![t] = OnException([@ EXCEPT !.sends = @ + 1])]
    /\ UNCHANGED <<leads, autoinc, REQUEST_LOG, session, now, hpc, resp, accepted,
                   everStored, handlers, dashboard>>

\* a second passes
TickTo(limit) ==
    /\ resp.op = "none"
    /\ now < limit
    /\ now' = now + 1
    /\ UNCHANGED <<leads, autoinc, REQUEST_LOG, session, threads, hpc, resp, accepted,
                   everStored, handlers, dashboard>>

Tick == TickTo(MaxTime)

Searches == { <<>>, Lit(<<" ", "L", "i", " ">>) }
LeadIds == 1..(MaxId + 1)
ThreadIds == 1..Len(threads)

Next ==
    \/ \E ip \in IPs, data \in FewBodies : Contact(ip, data)
    \/ \E b \in OneBrowser : AdminLoginForm(b)
    \/ \E b \in OneBrowser, u \in Usernames, p \in Passwords : AdminLogin(b, u, p)
    \/ \E b \in OneBrowser, search \in Searches : Admin(b, search)
    \/ \E b \in OneBrowser, id \in LeadIds : MarkContacted(b, id)
    \/ \E b \in OneBrowser, id \in LeadIds : DeleteLead(b, id)
    \/ \E b \in OneBrowser : DownloadLeads(b)
    \/ \E b \in OneBrowser, key \in Keys : AdminBackup(b, key)
    \/ AdminBackupReturn
    \/ \E t \in ThreadIds : BackupRead(t)
    \/ \E t \in ThreadIds : BackupReadFails(t)
    \/ \E t \in ThreadIds, status \in StatusCodes : BackupPost(t, status)
    \/ \E t \in ThreadIds : BackupPostFails(t)
    \/ \E b \in OneBrowser : AdminLogout(b)
    \/ Respond
    \/ Tick

Spec == Init /\ [][Next]_vars

(* The session-gated routes on their own, used from two browsers: no clock *)
(* and no backup                                                           *)

NextAdmin ==
    \/ \E ip \in IPs, data \in FewBodies : Contact(ip, data)
    \/ \E b \in Browsers : AdminLoginForm(b)
    \/ \E b \in Browsers, u \in Usernames, p \in Passwords : AdminLogin(b, u, p)
    \/ \E b \in Browsers, search \in Searches : Admin(b, search)
    \/ \E b \in Browsers, id \in LeadIds : MarkContacted(b, id)
    \/ \E b \in Browsers, id \in LeadIds : DeleteLead(b, id)
    \/ \E b \in Browsers : DownloadLeads(b)
    \/ \E b \in Browsers : AdminLogout(b)
    \/ Respond

SpecAdmin == Init /\ [][NextAdmin]_vars

(* The rate limiter on its own: /contact and the clock, over a longer time *)

TickRate == TickTo(MaxClock)

NextRate ==
    \/ \E ip \in IPs, data \in Bodies : Contact(ip, data)
    \/ Respond
    \/ TickRate

SpecRate == Init /\ [][NextRate]_vars

(* POST /contact on threads: the steps of contact() at which a thread can *)
(* be suspended while another one runs                                      *)

\* ip = request.remote_addr; now = time.time()
ContactBegin(h, ip) ==
    /\ handlers[h].pc \in {"idle", "done"}
    /\ handlers' = [handlers EXCEPT ![h] = [IdleHandler EXCEPT !.pc = "check", !.ip = ip, !.now = now]]
    /\ UNCHANGED <<leads, autoinc, REQUEST_LOG, session, now, threads, hpc, resp, accepted,
                   everStored, dashboard>>

\* if ip in REQUEST_LOG: if now - REQUEST_LOG[ip] < 5: return 429
ContactCheck(h) ==
    /\ handlers[h].pc = "check"
    /\ handlers' = [handlers EXCEPT ![h] =
                       IF Throttled(REQUEST_LOG, @.ip, @.now)
                       THEN [@ EXCEPT !.pc = "done", !.code = 429]
                       ELSE [@ EXCEPT !.pc = "stamp", !.passed = TRUE]]
    /\ UNCHANGED <<leads, autoinc, REQUEST_LOG, session, now, threads, hpc, resp, accepted,
                   everStored, dashboard>>

\* REQUEST_LOG[ip] = now
ContactStamp(h) ==
    /\ handlers[h].pc = "stamp"
    /\ REQUEST_LOG' = Stamp(REQUEST_LOG, handlers[h].ip, handlers[h].now)
    /\ handlers' = [handlers EXCEPT ![h].pc = "body"]
    /\ UNCHANGED <<leads, autoinc, session, now, threads, hpc, resp, accepted,
                   everStored, dashboard>>

\* the rest of contact(): read the body, validate, INSERT, return
ContactBody(h, data) ==
    /\ handlers[h].pc = "body"
    /\ IF Raises(data)
       THEN /\ handlers' = [handlers EXCEPT ![h].pc = "done", ![h].code = 500]
            /\ UNCHANGED <<leads, autoinc, accepted, everStored>>
       ELSE LET name == Field(data.name)
                phone == Field(data.phone)
                message == Field(data.message)
            IN  IF Refused(name, phone, message)
                THEN /\ handlers' = [handlers EXCEPT ![h].pc = "done", ![h].code = 400]
                     /\ UNCHANGED <<leads, autoinc, accepted, everStored>>
                ELSE /\ autoinc < MaxId
                     /\ leads' = InsertLead(leads, autoinc, name, phone, message, now)
                     /\ autoinc' = autoinc + 1
                     /\ accepted' = Stamp(accepted, handlers[h].ip, now)
                     /\ everStored' = everStored \cup DOMAIN leads'
                     /\ handlers' = [handlers EXCEPT ![h].pc = "done", ![h].code = 200]
    /\ UNCHANGED <<REQUEST_LOG, session, now, threads, hpc, resp, dashboard>>

NextRace ==
    \/ \E h \in Slots, ip \in IPs : ContactBegin(h, ip)
    \/ \E h \in Slots : ContactCheck(h)
    \/ \E h \in Slots : ContactStamp(h)
    \/ \E h \in Slots, data \in FewBodies : ContactBody(h, data)
    \/ Tick

SpecRace == Init /\ [][NextRace]_vars

(* GET /admin on a thread of its own: each query of admin() is a statement *)
(* of its own, and the other requests, one statement each, run in between  *)

\* the session check and the list query
AdminList(b, search) ==
    /\ dashboard.pc \in {"none", "done"}
    /\ IF ~LoggedIn(b)
       THEN dashboard' = [NoDashboard EXCEPT !.pc = "done", !.code = 302]
       ELSE LET term == Strip(search)
                ids == IF term /= <<>> THEN Matching(leads, term) ELSE DOMAIN leads
            IN  \E listed \in Ordered(leads, ids) :
                    dashboard' = [NoDashboard EXCEPT !.pc = "total", !.filtered = term /= <<>>,
                                                     !.rows = listed, !.store = leads]
    /\ UNCHANGED <<leads, autoinc, REQUEST_LOG, session, now, threads, hpc, resp, accepted,
                   everStored, handlers>>

\* total = SELECT COUNT(*) FROM leads
AdminTotal ==
    /\ dashboard.pc = "total"
    /\ dashboard' = [dashboard EXCEPT !.pc = "new", !.total = Cardinality(DOMAIN leads),
                                      !.undisturbed = @ /\ leads = dashboard.store]
    /\ UNCHANGED <<leads, autoinc, REQUEST_LOG, session, now, threads, hpc, resp, accepted,
                   everStored, handlers>>

\* new_count = SELECT COUNT(*) FROM leads WHERE status='new'
AdminNewCount ==
    /\ dashboard.pc = "new"
    /\ dashboard' = [dashboard EXCEPT !.pc = "contacted", !.new_count = Count(leads, "new"),
                                      !.undisturbed = @ /\ leads = dashboard.store]
    /\ UNCHANGED <<leads, autoinc, REQUEST_LOG, session, now, threads, hpc, resp, accepted,
                   everStored, handlers>>

\* contacted_count = SELECT COUNT(*) FROM leads WHERE status='contacted', and the page
AdminContactedCount ==
    /\ dashboard.pc = "contacted"
    /\ dashboard' = [dashboard EXCEPT !.pc = "done", !.code = 200,
                                      !.contacted_count = Count(leads, "contacted"),
                                      !.undisturbed = @ /\ leads = dashboard.store,
                                      !.store = <<>>]
    /\ UNCHANGED <<leads, autoinc, REQUEST_LOG, session, now, threads, hpc, resp, accepted,
                   everStored, handlers>>

NextDash ==
    \/ \E b \in OneBrowser, search \in Searches : AdminList(b, search)
    \/ AdminTotal
    \/ AdminNewCount
    \/ AdminContactedCount
    \/ \E ip \in IPs, data \in FewBodies : Contact(ip, data)
    \/ \E b \in OneBrowser, u \in Usernames, p \in Passwords : AdminLogin(b, u, p)
    \/ \E b \in OneBrowser, id \in LeadIds : MarkContacted(b, id)
    \/ \E b \in OneBrowser, id \in LeadIds : DeleteLead(b, id)
    \/ Respond

SpecDash == Init /\ [][NextDash]_vars

----------------------------------------------------------------------------
(* Properties *)

\* t is s without its leading and trailing whitespace
IsTrimOf(t, s) ==
    \E i \in 1..(Len(s) + 1), j \in 0..Len(s) :
        /\ t = SubSeq(s, i, j)
        /\ \A k \in 1..(i - 1) : s[k][1] \in WS
        /\ \A k \in (j + 1)..Len(s) : s[k][1] \in WS
        /\ t /= <<>> => t[1][1] \notin WS /\ t[Len(t)][1] \notin WS

\* the request is not throttled: the client has no entry, or its entry is 5 seconds old or older
Passes(ip) == ip \notin DOMAIN REQUEST_LOG \/ now - REQUEST_LOG[ip] >= 5

\* every field of the body is a string or is absent
AllText(data) ==
    data.name.kind /= "nonstr" /\ data.phone.kind /= "nonstr" /\ data.message.kind /= "nonstr"

\* f is a string that is non-empty after trimming and at most max characters long then
GoodField(f, max) ==
    /\ f.kind = "str"
    /\ \E t \in {SubSeq(f.val, i, j) : i \in 1..(Len(f.val) + 1), j \in 0..Len(f.val)} :
          IsTrimOf(t, f.val) /\ t /= <<>> /\ StrLen(t) <= max

GoodBody(data) ==
    GoodField(data.name, 100) /\ GoodField(data.phone, 20) /\ GoodField(data.message, 1000)

\* f is missing, empty (nothing but whitespace), or longer than max after trimming
BadField(f, max) ==
    \/ f.kind = "absent"
    \/ /\ f.kind = "str"
       /\ \E t \in {SubSeq(f.val, i, j) : i \in 1..(Len(f.val) + 1), j \in 0..Len(f.val)} :
             IsTrimOf(t, f.val) /\ (t = <<>> \/ StrLen(t) > max)

BadBody(data) ==
    BadField(data.name, 100) \/ BadField(data.phone, 20) \/ BadField(data.message, 1000)

\* the request bodies of the model that a submission must be accepted with, and those it
\* must be refused with
GoodBodies == {data \in Bodies : GoodBody(data)}
BadBodies == {data \in Bodies : AllText(data) /\ BadBody(data)}

AnonymousRedirect(r) ==
    /\ r.code = 302 /\ r.body = "/admin/login"
    /\ r.rows = <<>> /\ r.counts = <<>> /\ r.text = <<>>

\* C1: a request to /admin, /admin/mark/<id>, /admin/delete/<id>, /admin/download or
\* /admin/logout from a session without admin_logged_in is answered with a redirect to
\* /admin/login that carries no lead data, and leaves the lead store as it was.
C1_AnonymousIsRedirected ==
    [][\A b \in Browsers :
         ~session[b] =>
            /\ \A search \in Searches :
                  Admin(b, search) => AnonymousRedirect(resp') /\ leads' = leads
            /\ \A id \in LeadIds :
                  MarkContacted(b, id) => AnonymousRedirect(resp') /\ leads' = leads
            /\ \A id \in LeadIds :
                  DeleteLead(b, id) => AnonymousRedirect(resp') /\ leads' = leads
            /\ DownloadLeads(b) => AnonymousRedirect(resp') /\ leads' = leads
            /\ AdminLogout(b) => AnonymousRedirect(resp') /\ leads' = leads]_vars

\* /admin/delete/1 was redirected to the login page while lead 1 is in the store and another
\* browser holds an admin session
C1_Witness ==
    /\ resp.op = "delete" /\ resp.arg = 1 /\ resp.body = "/admin/login"
    /\ 1 \in DOMAIN leads
    /\ \E b \in Browsers : session[b]

\* C2: after a submission of a client address was persisted at time t, every POST /contact
\* of that address less than 5 seconds after t is answered 429 too_many_requests and
\* leaves the lead store as it was.
C2_SecondSubmissionThrottled ==
    [][\A ip \in IPs, data \in Bodies :
         (Contact(ip, data) /\ ip \in DOMAIN accepted /\ now - accepted[ip] < 5) =>
            /\ resp'.code = 429 /\ resp'.body = "too_many_requests"
            /\ leads' = leads]_vars

\* a request was throttled 4 seconds after the only submission persisted so far
C2_Witness ==
    /\ resp.op = "contact" /\ resp.code = 429
    /\ Cardinality(DOMAIN leads) = 1 /\ autoinc = 1
    /\ \E ip \in DOMAIN accepted : now - accepted[ip] = 4

\* C3: a POST /contact that is not throttled and whose name, phone and message are
\* non-empty after trimming, with at most 100, 20 and 1000 characters, adds exactly one
\* lead with a fresh id, the trimmed fields, status 'new', leaves the other leads as they
\* were, and answers 200 success.
C3_ValidSubmissionPersisted ==
    [][\A ip \in IPs, data \in GoodBodies :
         (Contact(ip, data) /\ Passes(ip)) =>
            /\ resp'.code = 200 /\ resp'.body = "success"
            /\ \E id \in DOMAIN leads' \ DOMAIN leads :
                  /\ DOMAIN leads' = DOMAIN leads \cup {id}
                  /\ IsTrimOf(leads'[id].name, data.name.val)
                  /\ IsTrimOf(leads'[id].phone, data.phone.val)
                  /\ IsTrimOf(leads'[id].message, data.message.val)
                  /\ leads'[id].status = "new"
            /\ \A id \in DOMAIN leads : leads'[id] = leads[id]]_vars

\* a second lead, with fields of the greatest lengths allowed, was just added to a first one
C3_Witness ==
    /\ resp.op = "contact" /\ resp.code = 200
    /\ DOMAIN leads = {1, 2}
    /\ StrLen(leads[2].name) = 100 /\ StrLen(leads[2].phone) = 20
    /\ StrLen(leads[2].message) = 1000
    /\ StrLen(leads[1].name) < 100

C5_Original ==
    [][\A ip \in IPs, data \in Bodies :
         (Contact(ip, data) /\ ip \in DOMAIN REQUEST_LOG /\ now - REQUEST_LOG[ip] = 5) =>
            resp'.code = 429]_vars

\* C5: a POST /contact exactly 5 seconds after the timestamp stored for its client address
\* passes the throttle: it is not answered 429 and the stored timestamp becomes the
\* current time; a request less than 5 seconds after the stored timestamp is answered 429.
C5_BoundaryPasses ==
    [][\A ip \in IPs, data \in Bodies :
         (Contact(ip, data) /\ ip \in DOMAIN REQUEST_LOG) =>
            /\ now - REQUEST_LOG[ip] = 5 => resp'.code /= 429 /\ REQUEST_LOG'[ip] = now
            /\ now - REQUEST_LOG[ip] < 5 => resp'.code = 429]_vars

\* one client address had a submission persisted at time 0 and the next one at time 5
C5_Witness ==
    /\ resp.op = "contact" /\ resp.code = 200 /\ now = 5
    /\ Cardinality(DOMAIN REQUEST_LOG) = 1
    /\ DOMAIN leads = {1, 2}
    /\ leads[1].created_at = 0 /\ leads[2].created_at = 5

\* C6: every stored lead has status 'new' or 'contacted', a lead is created with status
\* 'new', and a lead whose status is 'contacted' keeps it for as long as it is stored,
\* whatever operation runs.
C6_StatusNeverReverts ==
    [][/\ \A id \in DOMAIN leads' : leads'[id].status \in {"new", "contacted"}
       /\ \A id \in DOMAIN leads' \ DOMAIN leads : leads'[id].status = "new"
       /\ \A id \in DOMAIN leads \cap DOMAIN leads' :
             leads[id].status = "contacted" => leads'[id].status = "contacted"]_vars

\* a submission was persisted after lead 1 had been marked contacted, and lead 1 still is
C6_Witness ==
    /\ resp.op = "contact" /\ resp.code = 200
    /\ DOMAIN leads = {1, 2}
    /\ leads[1].status = "contacted" /\ leads[2].status = "new"

\* C7: for an authenticated admin, /admin/mark/<id> on a lead that is already 'contacted'
\* leaves the whole lead store unchanged, and marking a lead twice gives the store that
\* marking it once gives.
C7_MarkIdempotent ==
    [][\A b \in Browsers, id \in LeadIds :
         (MarkContacted(b, id) /\ session[b]) =>
            /\ (id \in DOMAIN leads /\ leads[id].status = "contacted") => leads' = leads
            /\ MarkRows(leads', id) = leads']_vars

\* /admin/mark/1 was answered for the admin when lead 1, the only lead ever stored, was
\* already 'contacted' in the snapshot a backup thread had read before
C7_Witness ==
    /\ resp.op = "mark" /\ resp.arg = 1 /\ resp.body = "/admin"
    /\ autoinc = 1 /\ DOMAIN leads = {1} /\ leads[1].status = "contacted"
    /\ \E t \in ThreadIds :
          /\ threads[t].pc = "send"
          /\ threads[t].rows[1].id = 1 /\ threads[t].rows[1].status = "contacted"

\* C8: a GET /admin/backup whose key is absent or differs from the backup key is answered
\* 403 Unauthorized, starts no backup thread and causes no send request, whether or not
\* the caller's session is an authenticated admin session.
C8_WrongKeyRejected ==
    [][\A b \in Browsers, key \in Keys :
         (AdminBackup(b, key) /\ key /= <<"backup-key">>) =>
            /\ resp'.code = 403 /\ resp'.body = "Unauthorized"
            /\ threads' = threads /\ hpc' = 0]_vars

\* a backup request was answered 403 while the admin is logged in and leads are stored;
\* no thread was ever started
C8_Witness ==
    /\ resp.op = "backup" /\ resp.code = 403
    /\ \E b \in Browsers : session[b]
    /\ leads /= <<>> /\ threads = <<>>

\* a step of a backup thread
ThreadStep(t) ==
    \/ BackupRead(t)
    \/ BackupReadFails(t)
    \/ \E status \in StatusCodes : BackupPost(t, status)
    \/ BackupPostFails(t)

\* C9: a GET /admin/backup with the right key starts a thread and returns 200 "Backup
\* triggered" without waiting for it: the handler can return whatever the thread is doing,
\* and its response is the same whether the thread has not run yet, skipped the backup,
\* got 202 or another status from the provider, or caught an exception.
C9_BackupAcknowledged ==
    [][/\ \A b \in Browsers :
             AdminBackup(b, <<"backup-key">>) =>
                /\ Len(threads') = Len(threads) + 1
                /\ threads'[Len(threads')].pc = "read"
       /\ hpc /= 0 => ENABLED AdminBackupReturn
       /\ AdminBackupReturn =>
             /\ resp'.code = 200 /\ resp'.body = "Backup triggered"
             /\ resp'.rows = <<>> /\ resp'.counts = <<>> /\ resp'.text = <<>>
             /\ threads' = threads]_vars

\* "Backup triggered" was answered although the thread of this request had already got a
\* status other than 202 from the provider
C9_Witness ==
    /\ resp.op = "backup" /\ resp.code = 200 /\ resp.body = "Backup triggered"
    /\ threads /= <<>>
    /\ threads[Len(threads)].outcome = "provider_error"

\* C10: a backup thread makes at most one send request and ends by returning, also when
\* reading the store or the send request raises or the provider answers another status
\* than 202; once it has ended it does nothing more; its steps change neither the lead
\* store, the sessions nor the rate-limit map, and requests are handled as before.
C10_BackupFailureContained ==
    [][/\ \A t \in 1..Len(threads') :
             /\ threads'[t].sends <= 1
             /\ threads'[t].pc = "done" => threads'[t].ended = "returned"
       /\ \A t \in ThreadIds :
             /\ threads[t].pc = "done" => threads'[t] = threads[t]
             /\ ThreadStep(t) =>
                   /\ leads' = leads /\ session' = session /\ REQUEST_LOG' = REQUEST_LOG
                   /\ hpc' = hpc /\ resp' = resp
       /\ (Idle /\ \E t \in ThreadIds : threads[t].outcome \in {"exception", "provider_error"})
             => \A b \in Browsers : ENABLED AdminLoginForm(b)]_vars

\* a submission was persisted and answered after the only backup thread had ended with an
\* exception raised by its send request
C10_Witness ==
    /\ resp.op = "contact" /\ resp.code = 200
    /\ Len(threads) = 1
    /\ threads[1].pc = "done" /\ threads[1].outcome = "exception" /\ threads[1].sends = 1

\* C11: a backup thread makes a send request only with a snapshot of at least one lead (its
\* attachment is never the header row alone), whatever submissions and deletions happen
\* before and after it reads; a thread that reads an empty store ends without a send
\* request; /admin/download on an empty store answers the plain text "No data available"
\* and no CSV.
C11_EmptyExportIsNoOp ==
    [][/\ \A t \in ThreadIds :
             /\ threads'[t].sends > threads[t].sends =>
                   /\ Len(threads[t].rows) >= 1
                   /\ threads[t].csv /= CsvLine(CsvHeader)
             /\ (threads[t].pc = "read" /\ threads'[t].pc /= "read"
                   /\ threads'[t].outcome /= "exception" /\ BackupRead(t)) =>
                   IF leads = <<>>
                   THEN /\ threads'[t].pc = "done" /\ threads'[t].outcome = "skipped"
                        /\ threads'[t].sends = 0
                   ELSE /\ threads'[t].pc = "send"
                        /\ {threads'[t].rows[k].id : k \in 1..Len(threads'[t].rows)} = DOMAIN leads
       /\ \A b \in Browsers :
             (session[b] /\ resp'.op = "download" /\ DownloadLeads(b)) =>
                IF leads = <<>>
                THEN /\ resp'.code = 200 /\ resp'.body = "No data available"
                     /\ resp'.text = <<>> /\ resp'.rows = <<>>
                ELSE resp'.body = "text/csv" /\ resp'.text /= <<>>]_vars

\* /admin/download answered "No data available" on a store emptied by a deletion, after a
\* backup thread had read the lead before the deletion and sent it
C11_Witness ==
    /\ resp.op = "download" /\ resp.body = "No data available"
    /\ leads = <<>> /\ autoinc = 1
    /\ Len(threads) = 1 /\ threads[1].outcome = "sent" /\ threads[1].sends = 1

\* C12: a session gets admin_logged_in only by a POST /admin/login with the admin username
\* and the admin password; a POST with a wrong username or a wrong password is answered
\* with the login page and the error "Invalid credentials", the same response in both
\* cases, and leaves every session as it was; no other operation sets admin_logged_in.
C12_LoginOnlyWithCredentials ==
    [][\A b \in Browsers :
         /\ (~session[b] /\ session'[b]) => AdminLogin(b, "admin", "secret")
         /\ \A u \in Usernames, p \in Passwords :
               (AdminLogin(b, u, p) /\ (u /= "admin" \/ p /= "secret")) =>
                  /\ resp' = [NoResp EXCEPT !.op = "login", !.code = 200,
                                            !.body = "login.html: Invalid credentials"]
                  /\ session' = session]_vars

\* a login with wrong credentials was refused for one browser while the other browser holds
\* an admin session
C12_Witness ==
    /\ resp.op = "login" /\ resp.body = "login.html: Invalid credentials"
    /\ \E b1, b2 \in Browsers : session[b1] /\ ~session[b2]

\* C13: /admin/logout leaves its session without admin_logged_in whatever it held before,
\* touches no other session, and changes nothing when the session was anonymous already;
\* from then on the session stays anonymous until a login with the right credentials, and
\* while it is anonymous every session-gated route redirects it to /admin/login.
C13_LogoutUnconditional ==
    [][\A b \in Browsers :
         /\ AdminLogout(b) =>
               /\ ~session'[b]
               /\ \A other \in Browsers \ {b} : session'[other] = session[other]
               /\ ~session[b] => session' = session
               /\ resp'.code = 302 /\ resp'.body = "/admin/login"
         /\ (~session[b] /\ ~AdminLogin(b, "admin", "secret")) => ~session'[b]
         /\ ~session[b] =>
               /\ \A search \in Searches : Admin(b, search) => resp'.body = "/admin/login"
               /\ \A id \in LeadIds : MarkContacted(b, id) => resp'.body = "/admin/login"
               /\ \A id \in LeadIds : DeleteLead(b, id) => resp'.body = "/admin/login"
               /\ DownloadLeads(b) => resp'.body = "/admin/login"]_vars

\* a logout was answered and no session is logged in, after an admin had marked a lead
C13_Witness ==
    /\ resp.op = "logout" /\ resp.body = "/admin/login"
    /\ \A b \in Browsers : ~session[b]
    /\ \E id \in DOMAIN leads : leads[id].status = "contacted"

\* C15: /admin/mark/<id> changes nothing but the status of the lead with that id,
\* /admin/delete/<id> removes that lead and nothing else, both leave the store as it was
\* when no lead has that id, and no step changes the name, phone, message or created_at
\* of a lead that stays in the store, or its status other than by /admin/mark/<its id>.
C15_OnlyOwnIdChanges ==
    [][/\ \A b \in Browsers, id \in LeadIds :
             /\ MarkContacted(b, id) =>
                   /\ DOMAIN leads' = DOMAIN leads
                   /\ \A i \in DOMAIN leads \ {id} : leads'[i] = leads[i]
                   /\ id \notin DOMAIN leads => leads' = leads
             /\ DeleteLead(b, id) =>
                   /\ DOMAIN leads \ {id} \subseteq DOMAIN leads'
                   /\ DOMAIN leads' \subseteq DOMAIN leads
                   /\ \A i \in DOMAIN leads' : leads'[i] = leads[i]
                   /\ id \notin DOMAIN leads => leads' = leads
       /\ \A i \in DOMAIN leads \cap DOMAIN leads' :
             /\ leads'[i].name = leads[i].name /\ leads'[i].phone = leads[i].phone
             /\ leads'[i].message = leads[i].message
             /\ leads'[i].created_at = leads[i].created_at
             /\ leads'[i].status /= leads[i].status =>
                   \E b \in Browsers : MarkContacted(b, i) /\ session[b]
       /\ \A i \in DOMAIN leads \ DOMAIN leads' :
             \E b \in Browsers : DeleteLead(b, i) /\ session[b]]_vars

\* /admin/delete/1 was answered for an admin and lead 2, marked contacted before, is what
\* is left in the store
C15_Witness ==
    /\ resp.op = "delete" /\ resp.arg = 1 /\ resp.body = "/admin"
    /\ DOMAIN leads = {2} /\ leads[2].status = "contacted"

\* C14: the id of a newly created lead is the id of no lead that is or ever was in the
\* store, deleted leads included; a step creates at most one lead.
C14_IdsNeverReused ==
    [][/\ \A id \in DOMAIN leads' \ DOMAIN leads : id \notin everStored
       /\ Cardinality(DOMAIN leads' \ DOMAIN leads) <= 1
       /\ DOMAIN leads' \subseteq everStored']_vars

\* a lead was created with id 2 after lead 1 had been deleted
C14_Witness ==
    /\ resp.op = "contact" /\ resp.code = 200
    /\ DOMAIN leads = {2} /\ everStored = {1, 2}

\* C17 as claimed: a POST /contact answered 400 leaves the rate-limit entry of its client
\* as it was, and a valid submission is answered 429 only when a submission of the same
\* client was persisted less than 5 seconds earlier.
C17_Original ==
    [][\A ip \in IPs, data \in Bodies :
         Contact(ip, data) =>
            /\ resp'.code = 400 => REQUEST_LOG' = REQUEST_LOG
            /\ (data \in GoodBodies /\ resp'.code = 429) =>
                  (ip \in DOMAIN accepted /\ now - accepted[ip] < 5)]_vars

\* C17: the rate-limit entry of a client address is the time of its last request that
\* passed the throttle, persisted or not: a POST /contact answered 200, 400 or 500 sets
\* the entry of its client to the current time, one answered 429 leaves the map as it
\* was; a valid submission is answered 429 exactly when the entry of its client is less
\* than 5 seconds old, also when the request that set it was refused with 400.
C17_EntryIsLastPassedRequest ==
    [][\A ip \in IPs, data \in Bodies :
         Contact(ip, data) =>
            /\ resp'.code \in {200, 400, 500, 429}
            /\ resp'.code \in {200, 400, 500} =>
                  /\ REQUEST_LOG'[ip] = now
                  /\ DOMAIN REQUEST_LOG' = DOMAIN REQUEST_LOG \cup {ip}
            /\ resp'.code = 429 => REQUEST_LOG' = REQUEST_LOG
            /\ data \in GoodBodies =>
                  (resp'.code = 429 <=> (ip \in DOMAIN REQUEST_LOG /\ now - REQUEST_LOG[ip] < 5))]_vars

\* a submission was throttled although nothing was ever persisted: the entry of its client
\* was set 4 seconds earlier by a request that was refused
C17_Witness ==
    /\ resp.op = "contact" /\ resp.code = 429
    /\ leads = <<>> /\ accepted = <<>>
    /\ \E ip \in DOMAIN REQUEST_LOG : now - REQUEST_LOG[ip] = 4

\* Reading a CSV document back (RFC 4180): records end with \r\n, fields are separated by
\* commas, a field in double quotes may hold commas and line breaks, and "" in it is one
\* double quote.  A comma or line end separates only after an even number of quotes.

\* the k-th smallest element of a set of numbers
Kth(S, k) == CHOOSE x \in S : Cardinality({y \in S : y < x}) = k - 1

\* the number of double quotes among the first n characters of cs
QuotesBefore(cs, n) == Cardinality({k \in 1..n : cs[k] = "\""})

\* a field as written -> its value: the enclosing quotes dropped, "" read as "
Unquote(seg) ==
    IF seg = <<>> \/ seg[1] /= "\"" THEN seg
    ELSE LET inner == SubSeq(seg, 2, Len(seg) - 1)
             keep == {j \in 1..Len(inner) :
                        inner[j] /= "\"" \/ QuotesBefore(inner, j) % 2 = 1}
         IN  [m \in 1..Cardinality(keep) |-> inner[Kth(keep, m)]]

\* the pieces of cs[from..to] between the separator positions seps (each wide characters long)
Pieces(cs, from, to, seps, wide) ==
    [f \in 1..(Cardinality(seps) + 1) |->
        SubSeq(cs,
               IF f = 1 THEN from ELSE Kth(seps, f - 1) + wide,
               IF f = Cardinality(seps) + 1 THEN to ELSE Kth(seps, f) - 1)]

\* the records of the document cs, each a sequence of field values
CsvRead(cs) ==
    LET ends == {i \in 1..(Len(cs) - 1) :
                   cs[i] = "\r" /\ cs[i + 1] = "\n" /\ QuotesBefore(cs, i) % 2 = 0}
        commas == {i \in 1..Len(cs) : cs[i] = "," /\ QuotesBefore(cs, i) % 2 = 0}
        first(r) == IF r = 1 THEN 1 ELSE Kth(ends, r - 1) + 2
        last(r) == Kth(ends, r) - 1
    IN  [r \in 1..Cardinality(ends) |->
            LET fields == Pieces(cs, first(r), last(r),
                                 {i \in commas : first(r) <= i /\ i <= last(r)}, 1)
            IN  [f \in 1..Len(fields) |-> Unquote(fields[f])]]

\* the header row as a reader of the document sees it
HeaderRead ==
    << <<"I", "D">>, <<"N", "a", "m", "e">>, <<"P", "h", "o", "n", "e">>,
       <<"M", "e", "s", "s", "a", "g", "e">>, <<"S", "t", "a", "t", "u", "s">>,
       <<"C", "r", "e", "a", "t", "e", "d", " ", "A", "t">> >>

\* the decimal digits of a number below 100
Decimal(n) == IF n < 10 THEN <<Digit(n)>> ELSE <<Digit(n \div 10), Digit(n % 10)>>

\* the row of lead id of the store l as a reader of the document sees it
LeadRead(l, id) ==
    << Decimal(id), Chars(l[id].name), Chars(l[id].phone), Chars(l[id].message),
       IF l[id].status = "new" THEN <<"n", "e", "w">>
       ELSE <<"c", "o", "n", "t", "a", "c", "t", "e", "d">>,
       Decimal(l[id].created_at) >>

\* rows and text are an export of the non-empty store l: one row per lead, the newest
\* first, and the text reads back as the header row followed by the rows of these leads
GoodExport(rows, text, l) ==
    LET doc == CsvRead(Chars(text)) IN
    /\ Len(rows) = Cardinality(DOMAIN l)
    /\ {rows[k].id : k \in 1..Len(rows)} = DOMAIN l
    /\ \A j, k \in 1..Len(rows) : j < k => rows[j].created_at >= rows[k].created_at
    /\ \A k \in 1..Len(rows) : rows[k].created_at = l[rows[k].id].created_at
    /\ Len(doc) = Len(rows) + 1
    /\ doc[1] = HeaderRead
    /\ \A k \in 1..Len(rows) : doc[k + 1] = LeadRead(l, rows[k].id)

\* C18: on a store of N >= 1 leads, /admin/download and the backup thread each produce a
\* CSV document that reads back as the header row ID,Name,Phone,Message,Status,Created At
\* followed by N rows, one per lead, the newest first, each with the id, name, phone,
\* message, status and created_at of its lead; when both have read the same rows, their
\* documents are the same.
C18_CsvExport ==
    [][/\ \A b \in Browsers :
             (session[b] /\ leads /= <<>> /\ resp'.op = "download" /\ DownloadLeads(b)) =>
                GoodExport(resp'.rows, resp'.text, leads)
       /\ \A t \in ThreadIds :
             (leads /= <<>> /\ threads[t].pc = "read" /\ threads'[t].pc = "send"
                /\ BackupRead(t)) =>
                GoodExport(threads'[t].rows, threads'[t].csv, leads)
       /\ \A t \in 1..Len(threads') :
             (resp'.op = "download" /\ resp'.rows /= <<>> /\ threads'[t].pc = "send"
                /\ threads'[t].rows = resp'.rows) => threads'[t].csv = resp'.text]_vars

\* /admin/download answered with two leads, the newer one first, one of them contacted,
\* while a backup thread holds the document it built from the same rows
C18_Witness ==
    /\ resp.op = "download" /\ Len(resp.rows) = 2
    /\ resp.rows[1].created_at > resp.rows[2].created_at
    /\ \E k \in 1..2 : resp.rows[k].status = "contacted"
    /\ \E t \in ThreadIds : threads[t].pc = "send" /\ threads[t].rows = resp.rows

\* C19: a POST /contact answered 429 leaves the rate-limit map and the lead store as they
\* were; a request more than 5 seconds after the timestamp stored for its client passes
\* the throttle, and so does the first request ever of a client; a request changes the
\* entry of no other client address.
C19_ThrottledDoesNotExtend ==
    [][\A ip \in IPs, data \in Bodies :
         Contact(ip, data) =>
            /\ resp'.code = 429 => (REQUEST_LOG' = REQUEST_LOG /\ leads' = leads)
            /\ (ip \in DOMAIN REQUEST_LOG /\ now - REQUEST_LOG[ip] > 5) => resp'.code /= 429
            /\ ip \notin DOMAIN REQUEST_LOG => resp'.code /= 429
            /\ \A other \in IPs \ {ip} :
                  /\ other \in DOMAIN REQUEST_LOG' <=> other \in DOMAIN REQUEST_LOG
                  /\ other \in DOMAIN REQUEST_LOG => REQUEST_LOG'[other] = REQUEST_LOG[other]]_vars

\* a second submission of a client was persisted 6 seconds after its first one, while the
\* other client has not sent anything yet
C19_Witness ==
    /\ resp.op = "contact" /\ resp.code = 200 /\ now = 6
    /\ Cardinality(DOMAIN REQUEST_LOG) = 1
    /\ DOMAIN leads = {1, 2} /\ leads[1].created_at = 0 /\ leads[2].created_at = 6

\* C16: of the POST /contact requests of one client address that are handled by different
\* threads, at most one passes the throttle within any 5 seconds, also when the check of
\* the one falls between the check and the update of the other.
C16_AtMostOnePasses ==
    \A h1, h2 \in Slots :
        (/\ h1 /= h2
         /\ handlers[h1].passed /\ handlers[h2].passed
         /\ handlers[h1].ip = handlers[h2].ip
         /\ handlers[h1].now <= handlers[h2].now)
            => handlers[h2].now - handlers[h1].now >= 5

\* C20 as claimed: in every /admin page total = new_count + contacted_count, and without
\* a search term total is the number of leads listed, also when other requests write to
\* the store between the queries of the page.
C20_Original ==
    (dashboard.pc = "done" /\ dashboard.code = 200) =>
        /\ dashboard.total = dashboard.new_count + dashboard.contacted_count
        /\ ~dashboard.filtered => dashboard.total = Len(dashboard.rows)

\* C20: in an /admin page whose queries all found the store as it was at the list query
\* (no submission, mark or delete of another request was committed in between),
\* total = new_count + contacted_count, and without a search term total is the number of
\* leads listed.
C20_CountsConsistentWhenUndisturbed ==
    (dashboard.pc = "done" /\ dashboard.code = 200 /\ dashboard.undisturbed) =>
        /\ dashboard.total = dashboard.new_count + dashboard.contacted_count
        /\ ~dashboard.filtered => dashboard.total = Len(dashboard.rows)

\* an /admin page without a search term was built undisturbed from a store of one new and
\* one contacted lead, and a lead was deleted since
C20_Witness ==
    /\ dashboard.pc = "done" /\ dashboard.code = 200 /\ dashboard.undisturbed
    /\ ~dashboard.filtered /\ Len(dashboard.rows) = 2
    /\ dashboard.new_count = 1 /\ dashboard.contacted_count = 1
    /\ Cardinality(DOMAIN leads) = 1
====
